---------------------------- MODULE Spec2Model ----------------------------
(***************************************************************************)
(* Rovo Pizza Runner: the three Rovo actions of src/index.js               *)
(* (getDominosMenu, quotePizzaOrder, placePizzaOrder), the retrying HTTP   *)
(* client dominosFetchJson they share, and the Forge key-value storage     *)
(* that holds the priced drafts between a quote and its placement.         *)
(*                                                                         *)
(* Every invocation of an action is a process.  A process is suspended     *)
(* only at an `await` (fetch, the back-off sleep, storage.get/set/delete); *)
(* each such await is one step here, together with the synchronous code    *)
(* that runs up to the next await.                                         *)
(*                                                                         *)
(* Strings are sequences of one-element "characters"; a character is       *)
(* either the blank " " or a run of non-blank text.  JavaScript values are *)
(* records [t, s, n, d]: the typeof tag, the text of a string, and a       *)
(* number as the fraction n/d.                                             *)
(***************************************************************************)
EXTENDS Integers, Sequences, FiniteSets, TLC

(***************************************************************************)
(* Program constants.                                                      *)
(***************************************************************************)
QUOTE_TTL_MS == 30 * 60 * 1000

maxAttempts == 4

(***************************************************************************)
(* Bounds of the model.                                                    *)
(***************************************************************************)
\* How many invocations are made in all, and how many may be running at once.
MaxCalls == 3

MaxRunning == 2

\* How many times the clock is seen to jump.
MaxTicks == 1

\* How long a list of stores findBestStore is tried on.
MaxStores == 3

\* How long a list of items buildProducts is tried on.
MaxItems == 2

(***************************************************************************)
(* JavaScript values.                                                      *)
(***************************************************************************)
JsUndefined == [t |-> "undefined", s |-> <<>>, n |-> 0, d |-> 1]

JsNull == [t |-> "null", s |-> <<>>, n |-> 0, d |-> 1]

JsNaN == [t |-> "nan", s |-> <<>>, n |-> 0, d |-> 1]

JsInfinity == [t |-> "infinity", s |-> <<>>, n |-> 1, d |-> 1]

JsStr(s) == [t |-> "string", s |-> s, n |-> 0, d |-> 1]

JsFrac(n, d) == [t |-> "number", s |-> <<>>, n |-> n, d |-> d]

JsNum(n) == JsFrac(n, 1)

JsBool(b) == [t |-> "boolean", s |-> <<>>, n |-> IF b THEN 1 ELSE 0, d |-> 1]

JsTrue == JsBool(TRUE)

JsFalse == JsBool(FALSE)

\* JavaScript truthiness (the operand of ||, && and !).
Truthy(v) ==
    CASE v.t = "undefined" -> FALSE
      [] v.t = "null" -> FALSE
      [] v.t = "nan" -> FALSE
      [] v.t = "string" -> v.s # <<>>
      [] v.t = "number" -> v.n # 0
      [] v.t = "boolean" -> v.n = 1
      [] OTHER -> TRUE

\* v == null in JavaScript: null or undefined.
IsNullish(v) == v.t \in {"undefined", "null"}

(***************************************************************************)
(* String.prototype.trim and toUpperCase over the model's characters.      *)
(***************************************************************************)
RECURSIVE TrimStart(_)
TrimStart(s) ==
    IF s = <<>> THEN s
    ELSE IF Head(s) = " " THEN TrimStart(Tail(s)) ELSE s

RECURSIVE TrimEnd(_)
TrimEnd(s) ==
    IF s = <<>> THEN s
    ELSE IF s[Len(s)] = " " THEN TrimEnd(SubSeq(s, 1, Len(s) - 1)) ELSE s

Trim(s) == TrimEnd(TrimStart(s))

UpperChar(c) ==
    CASE c = "delivery" -> "DELIVERY"
      [] c = "Delivery" -> "DELIVERY"
      [] c = "carryout" -> "CARRYOUT"
      [] c = "pickup" -> "PICKUP"
      [] c = "true" -> "TRUE"
      [] c = "ny" -> "NY"
      [] c = "brooklyn" -> "BROOKLYN"
      [] OTHER -> c

ToUpperCase(s) == [k \in 1..Len(s) |-> UpperChar(s[k])]

\* value.toString() for the values a payload field can hold.
ToStringJs(v) ==
    CASE v.t = "string" -> v.s
      [] v.t = "boolean" -> IF v.n = 1 THEN <<"true">> ELSE <<"false">>
      [] v.t = "number" -> IF v.n = 1 /\ v.d = 1 THEN <<"1">> ELSE <<"7">>
      [] OTHER -> <<v.t>>

(***************************************************************************)
(* Input validators.  A thrown UserError is the result [ok |-> FALSE] with *)
(* the kind of error; the thrown message names the field.                  *)
(***************************************************************************)
Threw(err) == [ok |-> FALSE, err |-> err, val |-> <<>>]

Returned(val) == [ok |-> TRUE, err |-> "", val |-> val]

assertString(value, name) ==
    IF value.t # "string" \/ Len(Trim(value.s)) = 0
    THEN Threw(name)
    ELSE Returned(Trim(value.s))

\* undefined (absent) unless a non-blank string.
assertOptionalString(value) ==
    IF IsNullish(value) THEN <<>>
    ELSE IF value.t # "string" THEN <<>>
    ELSE Trim(value.s)

\* A variant that takes any other service method for a carryout.
normalizeServiceMethodLenient(serviceMethod) ==
    LET raw == ToUpperCase(Trim(ToStringJs(
                   IF Truthy(serviceMethod) THEN serviceMethod
                   ELSE JsStr(<<"DELIVERY">>))))
    IN  IF raw = <<"DELIVERY">> THEN Returned(<<"Delivery">>)
        ELSE Returned(<<"Carryout">>)

normalizeServiceMethod(serviceMethod) ==
    LET raw == ToUpperCase(Trim(ToStringJs(
                   IF Truthy(serviceMethod) THEN serviceMethod
                   ELSE JsStr(<<"DELIVERY">>))))
    IN  IF raw = <<"DELIVERY">> THEN Returned(<<"Delivery">>)
        ELSE IF raw = <<"CARRYOUT">> THEN Returned(<<"Carryout">>)
        ELSE Threw("serviceMethod")

(***************************************************************************)
(* JSON texts.  A text is a string whose non-blank characters are the      *)
(* brackets and comma of an array or a literal: the name of a JSON value   *)
(* (an object, a number, null).  JSON.parse accepts a literal, or an       *)
(* array of literals, with blanks anywhere between them.                   *)
(***************************************************************************)
Item(kind, Code, Qty, ID, isNew) ==
    [kind |-> kind, Code |-> Code, Qty |-> Qty, ID |-> ID, isNew |-> isNew]

\* The literals an itemsJson text is made of, as the values they parse to.
ItemLiterals ==
    {"{Code:a,Qty:1}", "{Code:b,Qty:2,ID:7}", "{Code:_a_,Qty:'2'}",
     "{Code:a,Qty:0}", "{Code:a,Qty:-1}", "{Code:a,Qty:0.5}",
     "{Code:a,Qty:1.5}", "{Code:a,Qty:'x'}", "{Code:a,Qty:1e999}",
     "{Code:_,Qty:1}", "{Qty:1}", "{Code:7,Qty:1}", "{Code:a}",
     "{code:a,quantity:1}", "null", "7"}

ItemOf(lit) ==
    LET a == JsStr(<<"a">>)
        u == JsUndefined
    IN  CASE lit = "{Code:a,Qty:1}" -> Item("object", a, JsNum(1), u, u)
          [] lit = "{Code:b,Qty:2,ID:7}" ->
                 Item("object", JsStr(<<"b">>), JsNum(2), JsNum(7), u)
          [] lit = "{Code:_a_,Qty:'2'}" ->
                 Item("object", JsStr(<<" ", "a", " ">>), JsStr(<<"2">>), u, u)
          [] lit = "{Code:a,Qty:0}" -> Item("object", a, JsNum(0), u, u)
          [] lit = "{Code:a,Qty:-1}" -> Item("object", a, JsNum(-1), u, u)
          [] lit = "{Code:a,Qty:0.5}" -> Item("object", a, JsFrac(1, 2), u, u)
          [] lit = "{Code:a,Qty:1.5}" -> Item("object", a, JsFrac(3, 2), u, u)
          [] lit = "{Code:a,Qty:'x'}" -> Item("object", a, JsStr(<<"x">>), u, u)
          [] lit = "{Code:a,Qty:1e999}" -> Item("object", a, JsInfinity, u, u)
          [] lit = "{Code:_,Qty:1}" -> Item("object", JsStr(<<" ">>), JsNum(1), u, u)
          [] lit = "{Qty:1}" -> Item("object", u, JsNum(1), u, u)
          [] lit = "{Code:7,Qty:1}" -> Item("object", JsNum(7), JsNum(1), u, u)
          [] lit = "{Code:a}" -> Item("object", a, u, u, u)
          [] lit = "{code:a,quantity:1}" -> Item("object", u, u, u, u)
          [] lit = "null" -> Item("null", u, u, u, u)
          [] OTHER -> Item("number", u, u, u, u)

\* The documents the upstream answers with, by the path asked.
LocatorDocs ==
    {"{Stores:[open]}", "{Stores:[listed,online,open]}",
     "{Stores:[listed,online]}", "{Stores:[noid]}",
     "{Stores:[listed,noid]}", "{Stores:[]}", "{}"}

ValidateDocs ==
    {"{Status:0,Order}", "{Status:'0',Order}", "{Order}", "{Status:1,Message}",
     "{Status:-1}", "{Status:'',Order}"}

PriceDocs ==
    {"{Order:{Amounts:{Customer:1999}}}", "{Order:{Amounts:{}}}",
     "{Order:{Products:[a,null]}}"}

PlaceDocs == {"{Order:{Status:placed}}"}

MenuDocs == {"{Products,Categories}"}

ErrorDocs == {"{error}"}

JsonLiterals ==
    ItemLiterals \cup LocatorDocs \cup ValidateDocs \cup PriceDocs
        \cup PlaceDocs \cup MenuDocs \cup ErrorDocs

NonBlank(text) == SelectSeq(text, LAMBDA c : c # " ")

\* Whether JSON.parse accepts the text.
JsonValid(text) ==
    LET w == NonBlank(text)
        n == Len(w)
    IN  \/ n = 1 /\ w[1] \in JsonLiterals
        \/ /\ n >= 2
           /\ w[1] = "["
           /\ w[n] = "]"
           /\ \/ n = 2
              \/ /\ n % 2 = 1
                 /\ \A k \in 2..(n - 1) :
                        IF k % 2 = 0 THEN w[k] \in JsonLiterals ELSE w[k] = ","

\* The elements of the array an accepted text denotes (<<>> when it is no array).
JsonArrayElements(text) ==
    LET w == NonBlank(text)
    IN  SelectSeq(SubSeq(w, 2, Len(w) - 1), LAMBDA c : c # ",")

JsonIsArray(text) == Len(NonBlank(text)) >= 2

\* JSON.parse inside try/catch: a SyntaxError becomes a UserError.
safeJsonParse(str, name) ==
    IF JsonValid(str) THEN Returned(NonBlank(str)) ELSE Threw(name)

(***************************************************************************)
(* buildStreetName and buildAddress.                                       *)
(***************************************************************************)
\* A run of text that is all digits (the \d+ of the house-number pattern).
IsDigits(c) == c \in {"1", "2", "7", "93"}

\* A run of text that begins with a unit marker (APT|APARTMENT|UNIT|STE|SUITE|#),
\* whatever its case.
IsUnitMarker(c) == c \in {"apt", "APT", "unit", "#4", "Suite", "steel"}

\* The least index >= 2 of a run that begins with a unit marker, 0 if none:
\* the pattern asks for blanks before the marker.
FirstUnitMarker(s) ==
    LET hits == {k \in 2..Len(s) : s[k - 1] = " " /\ IsUnitMarker(s[k])}
    IN  IF hits = {} THEN 0 ELSE CHOOSE k \in hits : \A j \in hits : k <= j

buildStreetName(line1) ==
    LET s == Trim(line1)
        withoutNumber ==
            IF Len(s) >= 2 /\ IsDigits(s[1]) /\ s[2] = " "
            THEN TrimStart(Tail(s))
            ELSE s
        m == FirstUnitMarker(withoutNumber)
        withoutUnit ==
            IF m = 0 THEN Trim(withoutNumber)
            ELSE Trim(SubSeq(withoutNumber, 1, m - 1))
    IN  IF withoutUnit # <<>> THEN withoutUnit ELSE s

buildAddress(addressLine1, addressLine2, city, region, postalCode) ==
    LET line1 == assertString(addressLine1, "addressLine1")
        line2 == assertOptionalString(addressLine2)
        c == assertString(city, "city")
        r == assertString(region, "region")
        z == assertString(postalCode, "postalCode")
    IN  IF ~line1.ok THEN line1
        ELSE IF ~c.ok THEN c
        ELSE IF ~r.ok THEN r
        ELSE IF ~z.ok THEN z
        ELSE Returned([Street |-> IF line2 # <<>>
                                  THEN line1.val \o <<" ">> \o line2
                                  ELSE line1.val,
                       StreetName |-> buildStreetName(line1.val),
                       City |-> ToUpperCase(c.val),
                       Region |-> ToUpperCase(r.val),
                       PostalCode |-> z.val,
                       Type |-> IF line2 # <<>> THEN "Apartment" ELSE "House"])

(***************************************************************************)
(* buildProducts.                                                          *)
(***************************************************************************)
\* Number(text): blank text is 0, a numeral its value, anything else NaN.
StringToNumber(s) ==
    LET t == Trim(s)
    IN  IF t = <<>> THEN JsNum(0)
        ELSE IF t = <<"1">> THEN JsNum(1)
        ELSE IF t = <<"2">> THEN JsNum(2)
        ELSE IF t = <<"7">> THEN JsNum(7)
        ELSE JsNaN

\* Number(v).
ToNumber(v) ==
    CASE v.t = "string" -> StringToNumber(v.s)
      [] v.t = "undefined" -> JsNaN
      [] v.t = "null" -> JsNum(0)
      [] v.t = "boolean" -> JsNum(v.n)
      [] OTHER -> v

\* Number.isFinite(v), v a number.
IsFinite(v) == v.t = "number"

\* Math.floor of the fraction n/d, d > 0.
Floor(v) == v.n \div v.d

\* The error, if any, the map callback throws on the element at index idx (0-based).
ProductError(p, idx) ==
    LET qty == ToNumber(p.Qty)
    IN  IF p.kind # "object" THEN "itemsJson[idx]"
        ELSE IF p.Code.t # "string" \/ Trim(p.Code.s) = <<>> THEN "itemsJson[idx].Code"
        ELSE IF ~IsFinite(qty) \/ qty.n <= 0 THEN "itemsJson[idx].Qty"
        ELSE ""

Product(p, idx) ==
    [Code |-> Trim(p.Code.s),
     Qty |-> Floor(ToNumber(p.Qty)),
     ID |-> IF IsNullish(p.ID) THEN JsNum(idx + 1) ELSE p.ID,
     isNew |-> IF IsNullish(p.isNew) THEN JsFalse ELSE p.isNew]

\* items: the parsed itemsJson, as the non-blank characters of its text.
buildProducts(items) ==
    LET elems == [k \in 1..Len(JsonArrayElements(items)) |->
                     ItemOf(JsonArrayElements(items)[k])]
        bad == {k \in 1..Len(elems) : ProductError(elems[k], k - 1) # ""}
    IN  IF ~JsonIsArray(items) \/ Len(elems) = 0 THEN Threw("itemsJson")
        ELSE IF bad # {}
        THEN LET k == CHOOSE k \in bad : \A j \in bad : k <= j
             IN  Threw(ProductError(elems[k], k - 1))
        ELSE Returned([k \in 1..Len(elems) |-> Product(elems[k], k - 1)])

(***************************************************************************)
(* What dominosFetchJson hands back: the parsed JSON document, the raw     *)
(* text when the response is not JSON, or null when the body is empty.     *)
(***************************************************************************)
NullData == [kind |-> "null", doc |-> ""]

JsonData(doc) == [kind |-> "json", doc |-> doc]

TextData(text) == [kind |-> "text", doc |-> text]

(***************************************************************************)
(* findBestStore: the choice among the stores of a store-locator answer.   *)
(***************************************************************************)
Store(StoreID, IsOnlineNow, IsOpen, ServiceIsOpen) ==
    [StoreID |-> StoreID, StoreId |-> JsUndefined, IsOnlineNow |-> IsOnlineNow,
     IsOpen |-> IsOpen, ServiceIsOpen |-> ServiceIsOpen]

\* data?.Stores when it is an array, else [].
StoresOf(data) ==
    LET listed == Store(JsStr(<<"1">>), FALSE, TRUE, FALSE)
        online == Store(JsStr(<<"2">>), TRUE, FALSE, FALSE)
        open == Store(JsNum(7), TRUE, FALSE, TRUE)
    IN  IF data.kind # "json" THEN <<>>
        ELSE CASE data.doc = "{Stores:[open]}" -> <<open>>
               [] data.doc = "{Stores:[listed,online,open]}" -> <<listed, online, open>>
               [] data.doc = "{Stores:[listed,online]}" -> <<listed, online>>
               [] data.doc = "{Stores:[noid]}" ->
                      <<Store(JsUndefined, TRUE, TRUE, FALSE)>>
               [] data.doc = "{Stores:[listed,noid]}" ->
                      <<listed, Store(JsUndefined, TRUE, TRUE, FALSE)>>
               [] OTHER -> <<>>

\* stores.find(...): the first of the stores at the indexes hits, <<>> when none.
Find(stores, hits) ==
    IF hits = {} THEN <<>>
    ELSE <<stores[CHOOSE k \in hits : \A j \in hits : k <= j]>>

\* A variant that is content with the first online store, open or not.
BestStoreFirstOnline(stores) ==
    LET onlineOnly == {k \in 1..Len(stores) : stores[k].IsOnlineNow}
    IN  IF Find(stores, onlineOnly) # <<>> THEN Find(stores, onlineOnly)[1]
        ELSE stores[1]

BestStore(stores) ==
    LET onlineOpen == {k \in 1..Len(stores) :
                          stores[k].IsOnlineNow
                              /\ (stores[k].IsOpen \/ stores[k].ServiceIsOpen)}
        onlineOnly == {k \in 1..Len(stores) : stores[k].IsOnlineNow}
    IN  IF Find(stores, onlineOpen) # <<>> THEN Find(stores, onlineOpen)[1]
        ELSE IF Find(stores, onlineOnly) # <<>> THEN Find(stores, onlineOnly)[1]
        ELSE stores[1]

\* String(best?.StoreID || best?.StoreId || '').trim()
StoreIdOf(best) ==
    Trim(ToStringJs(IF Truthy(best.StoreID) THEN best.StoreID
                    ELSE IF Truthy(best.StoreId) THEN best.StoreId
                    ELSE JsStr(<<>>)))

\* A variant that returns the chosen store whether it has an identifier or not.
findBestStoreUnchecked(stores) ==
    IF Len(stores) = 0 THEN Threw("NoStoresFound")
    ELSE Returned([storeId |-> StoreIdOf(BestStore(stores)),
                   store |-> BestStore(stores)])

\* Lines 129-141: the choice among the stores of the answer.
findBestStoreAmong(stores) ==
    IF Len(stores) = 0 THEN Threw("NoStoresFound")
    ELSE IF StoreIdOf(BestStore(stores)) = <<>> THEN Threw("StoreIdMissing")
    ELSE Returned([storeId |-> StoreIdOf(BestStore(stores)),
                   store |-> BestStore(stores)])

\* The part of findBestStore that follows the store-locator answer.
findBestStore(data) == findBestStoreAmong(StoresOf(data))

(***************************************************************************)
(* The validate-order answer's Status and the test made of it.             *)
(***************************************************************************)
StatusOf(data) ==
    IF data.kind # "json" THEN JsUndefined
    ELSE CASE data.doc = "{Status:0,Order}" -> JsNum(0)
           [] data.doc = "{Status:'0',Order}" -> JsStr(<<"0">>)
           [] data.doc = "{Status:1,Message}" -> JsNum(1)
           [] data.doc = "{Status:-1}" -> JsNum(-1)
           [] data.doc = "{Status:'',Order}" -> JsStr(<<>>)
           [] OTHER -> JsUndefined

MessageOf(data) ==
    IF data.kind = "json" /\ data.doc = "{Status:1,Message}"
    THEN JsStr(<<"Address", " ", "not", " ", "serviceable">>)
    ELSE JsUndefined

\* A variant that takes only a positive number for a rejection.
ValidationRejectedPositive(validated) ==
    /\ StatusOf(validated).t = "number"
    /\ StatusOf(validated).n > 0

\* validated?.Status && validated.Status !== 0 && validated.Status !== '0'
ValidationRejected(validated) ==
    /\ Truthy(StatusOf(validated))
    /\ StatusOf(validated) # JsNum(0)
    /\ StatusOf(validated) # JsStr(<<"0">>)

(***************************************************************************)
(* summarizeQuote.                                                         *)
(***************************************************************************)
\* order.Amounts || {}, as its five candidate fields.
AmountsOf(priced) ==
    LET u == JsUndefined
    IN  IF priced.kind = "json" /\ priced.doc = "{Order:{Amounts:{Customer:1999}}}"
        THEN [Customer |-> JsFrac(1999, 100), Payment |-> u, Order |-> u,
              Total |-> u, Amount |-> u]
        ELSE [Customer |-> u, Payment |-> u, Order |-> u, Total |-> u, Amount |-> u]

\* order.Products when it is an array, else [].
OrderProductsOf(priced) ==
    IF priced.kind = "json" /\ priced.doc = "{Order:{Products:[a,null]}}"
    THEN <<Item("object", JsStr(<<"a">>), JsNum(1), JsUndefined, JsUndefined),
           Item("null", JsUndefined, JsUndefined, JsUndefined, JsUndefined)>>
    ELSE <<>>

\* Lines 180-186 and 193: the chain of || over the amounts, then ?? null.
QuoteTotal(amounts) ==
    LET total == IF Truthy(amounts.Customer) THEN amounts.Customer
                 ELSE IF Truthy(amounts.Payment) THEN amounts.Payment
                 ELSE IF Truthy(amounts.Order) THEN amounts.Order
                 ELSE IF Truthy(amounts.Total) THEN amounts.Total
                 ELSE IF Truthy(amounts.Amount) THEN amounts.Amount
                 ELSE amounts.Customer
    IN  IF IsNullish(total) THEN JsNull ELSE total

\* The summary (the documents carry no StoreID and no ServiceMethod).  Reading
\* p.Code of a null entry of Products is a TypeError.
summarizeQuote(priced) ==
    LET products == OrderProductsOf(priced)
        amounts == AmountsOf(priced)
    IN  IF \E k \in 1..Len(products) : products[k].kind = "null"
        THEN Threw("TypeError")
        ELSE Returned([items |-> [k \in 1..Len(products) |->
                                     [code |-> products[k].Code, qty |-> products[k].Qty]],
                       totals |-> amounts,
                       total |-> QuoteTotal(amounts)])

(***************************************************************************)
(* The state.                                                              *)
(***************************************************************************)
VARIABLES
    action,     \* which Rovo action each invocation runs ("" before it is called)
    pc,         \* where each invocation stands
    payload,    \* the payload each invocation was called with: <<>> before the call
    http,       \* each invocation's dominosFetchJson frame, while it has one
    locals,     \* each invocation's local variables, while it runs
    result,     \* what each invocation returned or threw
    ops,        \* how many storage calls each invocation has made
    storage,    \* the Forge storage: key -> stored quote record
    now,        \* Date.now()
    ticks,      \* how many times the clock has advanced
    requests,   \* every request sent upstream: who sent it, where, with what body
    received,   \* the last answer each invocation received from upstream
    arg,        \* a helper function under evaluation, with its argument
    given       \* the value it gave: <<>> until it has been evaluated

vars ==
    <<action, pc, payload, http, locals, result, ops, storage, now, ticks, requests,
      received, arg, given>>

\* The invocations, numbered in the order they are called.
Proc == 1..MaxCalls

IsQuoter(i) == action[i] = "quotePizzaOrder"

IsPlacer(i) == action[i] = "placePizzaOrder"

IsMenu(i) == action[i] = "getDominosMenu"

\* crypto.randomUUID(): the k-th UUID drawn by invocation i.  An invocation
\* draws at most two, and no two draws give the same UUID.
UuidText ==
    << <<"uuid-1a", "uuid-1b">>, <<"uuid-2a", "uuid-2b">>, <<"uuid-3a", "uuid-3b">>,
       <<"uuid-4a", "uuid-4b">>, <<"uuid-5a", "uuid-5b">>, <<"uuid-6a", "uuid-6b">> >>

randomUUID(i, k) == <<UuidText[i][k]>>

\* `pizza:quote:${orderToken}`
QuoteKey(orderToken) == <<"pizza:quote:">> \o orderToken

NoFrame ==
    [path |-> "", query |-> <<>>, body |-> NullData, attempt |-> 0,
     lastStatus |-> 0, delay |-> 0]

\* An absent local is <<>>, a present one <<value>>.
NoLocals ==
    [input |-> <<>>, orderId |-> <<>>, storeId |-> <<>>, store |-> <<>>,
     validated |-> <<>>, priced |-> <<>>, orderToken |-> <<>>, record |-> <<>>,
     saved |-> <<>>, checkedAt |-> -1, placed |-> <<>>, search |-> <<>>]

NoResult ==
    [out |-> "none", ok |-> FALSE, err |-> "", field |-> "", step |-> "",
     status |-> JsUndefined, message |-> JsUndefined, orderToken |-> <<>>,
     data |-> <<>>, quote |-> <<>>, httpStatus |-> 0]

NoOps == [get |-> 0, set |-> 0, delete |-> 0]

\* No helper function is under evaluation.
NoArg == [fn |-> "", in |-> <<>>]

\* The module is loaded: nothing has been called, the storage is empty.
Loaded ==
    /\ action = [i \in Proc |-> ""]
    /\ pc = [i \in Proc |-> "idle"]
    /\ payload = [i \in Proc |-> <<>>]
    /\ http = [i \in Proc |-> NoFrame]
    /\ locals = [i \in Proc |-> NoLocals]
    /\ result = [i \in Proc |-> NoResult]
    /\ ops = [i \in Proc |-> NoOps]
    /\ storage = << >>
    /\ now = 0
    /\ ticks = 0
    /\ requests = {}
    /\ received = [i \in Proc |-> <<>>]

Init ==
    /\ Loaded
    /\ arg = NoArg
    /\ given = <<>>

(***************************************************************************)
(* How an invocation begins and ends.                                      *)
(***************************************************************************)
\* Invocation i is called next: those before it have been called.
Call(i, name, p) ==
    /\ pc[i] = "idle"
    /\ IF i = 1 THEN TRUE ELSE pc[i - 1] # "idle"
    /\ Cardinality({j \in Proc : pc[j] \notin {"idle", "done"}}) < MaxRunning
    /\ action' = [action EXCEPT ![i] = name]
    /\ payload' = [payload EXCEPT ![i] = <<p>>]

\* The invocation settles: its frame and its locals are gone.
End(i, value) ==
    /\ pc' = [pc EXCEPT ![i] = "done"]
    /\ result' = [result EXCEPT ![i] = value]
    /\ http' = [http EXCEPT ![i] = NoFrame]
    /\ locals' = [locals EXCEPT ![i] = NoLocals]

\* throw new UserError(...): the action's promise rejects.  err names the kind
\* of the error (the code tells the kinds apart by their message only), field
\* the input the message is about.
Throw(i, err, field) ==
    End(i, [NoResult EXCEPT !.out = "threw", !.err = err, !.field = field])

\* throw lastErr: the error of the last response, with its status and data.
ThrowLastErr(i, status, data) ==
    End(i, [NoResult EXCEPT !.out = "threw", !.err = "UpstreamError",
                            !.httpStatus = status, !.data = <<data>>])

Return(i, value) == End(i, value)

(***************************************************************************)
(* The key-value storage.                                                  *)
(***************************************************************************)
\* storage.set(key, value).
StorageSet(store, key, value) ==
    [k \in DOMAIN store \cup {key} |-> IF k = key THEN value ELSE store[k]]

\* A variant of the delete that clears the storage.
StorageDeleteAll(store, key) == << >>

\* storage.delete(key).
StorageDelete(store, key) == [k \in DOMAIN store \ {key} |-> store[k]]

\* A variant of the read that falls back on some stored record when the key
\* has none.
StorageGetAny(store, key) ==
    IF key \in DOMAIN store THEN <<store[key]>>
    ELSE IF DOMAIN store # {} THEN <<store[CHOOSE k \in DOMAIN store : TRUE]>>
    ELSE <<>>

\* storage.get(key): <<>> for undefined.
StorageGet(store, key) == IF key \in DOMAIN store THEN <<store[key]>> ELSE <<>>

(***************************************************************************)
(* The answers of the upstream.                                            *)
(***************************************************************************)
Response(status, isJson, text) == [status |-> status, isJson |-> isJson, text |-> text]

DocsFor(path) ==
    CASE path = "/power/store-locator" -> LocatorDocs
      [] path = "/power/validate-order" -> ValidateDocs
      [] path = "/power/price-order" -> PriceDocs
      [] path = "/power/place-order" -> PlaceDocs
      [] path = "/power/store/{storeId}/menu" -> MenuDocs
      [] OTHER -> {}

\* A success carries a document of the path asked, or no document at all; a
\* failure carries an error document, or none.
Answers(path, res) ==
    IF res.text = <<>> THEN TRUE
    ELSE IF res.text[1] = "<html>" THEN TRUE
    ELSE res.text[1] \in (IF res.status = 200 THEN DocsFor(path) ELSE ErrorDocs)

\* An accepting answer to each call of the order pipeline, and a client error.
FewResponses ==
    {Response(200, TRUE, <<doc>>) :
         doc \in {"{Stores:[open]}", "{Status:0,Order}",
                  "{Order:{Amounts:{Customer:1999}}}", "{Order:{Status:placed}}"}}
        \cup {Response(400, TRUE, <<"{error}">>)}

\* Every kind of answer: any document, an empty body, text that is not JSON
\* (declared as JSON or not), and the failing statuses.
AllResponses ==
    {Response(200, TRUE, <<doc>>) :
         doc \in LocatorDocs \cup ValidateDocs \cup PriceDocs \cup PlaceDocs \cup MenuDocs}
        \cup {Response(200, TRUE, <<>>), Response(200, FALSE, <<"<html>">>),
              Response(200, TRUE, <<"<html>">>), Response(400, TRUE, <<"{error}">>),
              Response(404, FALSE, <<"<html>">>), Response(429, TRUE, <<"{error}">>),
              Response(503, TRUE, <<"{error}">>), Response(502, TRUE, <<"<html>">>)}

\* Math.floor(Math.random() * 200) is an integer of 0..199.
Jitters == {0, 199}

(***************************************************************************)
(* dominosFetchJson.                                                       *)
(***************************************************************************)
\* The attempt-th fetch of a call of dominosFetchJson by invocation i.
Request(i, path, query, body, attempt) ==
    [by |-> i, path |-> path, query |-> query, body |-> body, attempt |-> attempt]

\* The call of dominosFetchJson up to its first `await fetch`: attempt 1 is sent.
dominosFetchJson(i, path, query, body) ==
    /\ pc' = [pc EXCEPT ![i] = "fetch"]
    /\ http' = [http EXCEPT ![i] =
                    [path |-> path, query |-> query, body |-> body, attempt |-> 1,
                     lastStatus |-> 0, delay |-> 0]]
    /\ requests' = requests \cup {Request(i, path, query, body, 1)}

\* A variant that takes every response for a success.
OkAny(res) == TRUE

\* res.ok
Ok(res) == res.status >= 200 /\ res.status <= 299

\* const data = isJson && text ? safeJsonParse(text, ...) : (text || null)
DataOf(res) ==
    IF res.isJson /\ res.text # <<>> THEN JsonData(NonBlank(res.text)[1])
    ELSE IF res.text # <<>> THEN TextData(res.text[1])
    ELSE NullData

\* A variant that retries after any failing status.
RetryableAny(status) == status >= 400

Retryable(status) == status = 429 \/ (status >= 500 /\ status <= 599)

\* One pass of the loop body after `await fetch` resolved with res.
FetchOutcome(res, attempt) ==
    IF res.isJson /\ res.text # <<>> /\ ~safeJsonParse(res.text, "Domino response").ok
    THEN "malformed"
    ELSE IF Ok(res) THEN "return"
    ELSE IF ~Retryable(res.status) \/ attempt = maxAttempts THEN "throw"
    ELSE "sleep"

\* A variant whose base does not grow with the attempt.
BackoffDelayFlat(attempt, jitter) == 250 + jitter

\* 250 * Math.pow(2, attempt - 1) + jitter
BackoffDelay(attempt, jitter) == 250 * (2 ^ (attempt - 1)) + jitter

\* `await fetch(...)` resolves with res, an answer to the path asked.
Receive(i, res) ==
    /\ pc[i] = "fetch"
    /\ Answers(http[i].path, res)
    /\ received' = [received EXCEPT ![i] =
                        <<[path |-> http[i].path, attempt |-> http[i].attempt,
                           res |-> res]>>]

\* safeJsonParse throws on the response text: the UserError leaves the loop.
FetchMalformed(i, res) ==
    /\ Receive(i, res)
    /\ FetchOutcome(res, http[i].attempt) = "malformed"
    /\ Throw(i, "UpstreamMalformedResponse", "Domino response")
    /\ UNCHANGED <<action, payload, ops, storage, now, ticks, requests,
                   arg, given>>

\* `await fetch(...)` rejects (no answer could be had): nothing catches the
\* failure, which leaves the loop and the caller.
FetchReject(i) ==
    /\ pc[i] = "fetch"
    /\ Throw(i, "FetchFailed", "")
    /\ UNCHANGED <<action, payload, ops, storage, now, ticks, requests, received,
                   arg, given>>

\* A non-retryable status, or the last attempt: break, throw lastErr.
FetchThrow(i, res) ==
    /\ Receive(i, res)
    /\ FetchOutcome(res, http[i].attempt) = "throw"
    /\ ThrowLastErr(i, res.status, DataOf(res))
    /\ UNCHANGED <<action, payload, ops, storage, now, ticks, requests,
                   arg, given>>

\* A retryable status with attempts left: sleep base + jitter.
FetchSleep(i, res, jitter) ==
    /\ Receive(i, res)
    /\ FetchOutcome(res, http[i].attempt) = "sleep"
    /\ pc' = [pc EXCEPT ![i] = "sleep"]
    /\ http' = [http EXCEPT ![i].lastStatus = res.status,
                            ![i].delay = BackoffDelay(http[i].attempt, jitter)]
    /\ UNCHANGED <<action, payload, locals, result, ops, storage, now, ticks,
                   requests, arg, given>>

\* A variant of the loop that does not count its attempts.
BackoffStuck(i) ==
    /\ pc[i] = "sleep"
    /\ pc' = [pc EXCEPT ![i] = "fetch"]
    /\ requests' = requests \cup
                       {Request(i, http[i].path, http[i].query, http[i].body,
                                http[i].attempt)}
    /\ UNCHANGED <<action, payload, http, locals, result, ops, storage, now, ticks,
                   received, arg, given>>

\* The timer fires: attempt++, and the next fetch is sent.
Backoff(i) ==
    /\ pc[i] = "sleep"
    /\ pc' = [pc EXCEPT ![i] = "fetch"]
    /\ http' = [http EXCEPT ![i].attempt = @ + 1]
    /\ requests' = requests \cup
                       {Request(i, http[i].path, http[i].query, http[i].body,
                                http[i].attempt + 1)}
    /\ UNCHANGED <<action, payload, locals, result, ops, storage, now, ticks, received,
                   arg, given>>

\* if (res.ok) return data: the guard of every continuation below.
Returns(i, res, path) ==
    /\ http[i].path = path
    /\ Receive(i, res)
    /\ FetchOutcome(res, http[i].attempt) = "return"

(***************************************************************************)
(* quotePizzaOrder.                                                        *)
(***************************************************************************)
\* The synchronous prologue (lines 264-279): the first UserError in the order
\* the code evaluates it, else the validated inputs.
QuoteInput(p) ==
    LET serviceMethod == normalizeServiceMethod(p.serviceMethod)
        address == buildAddress(p.addressLine1, p.addressLine2, p.city,
                                p.region, p.postalCode)
        phone == assertString(p.phone, "phone")
        email == assertString(p.email, "email")
        itemsJson == assertString(p.itemsJson, "itemsJson")
        items == safeJsonParse(itemsJson.val, "itemsJson")
        products == buildProducts(items.val)
    IN  IF ~serviceMethod.ok THEN serviceMethod
        ELSE IF ~address.ok THEN address
        ELSE IF ~phone.ok THEN phone
        ELSE IF ~email.ok THEN email
        ELSE IF ~itemsJson.ok THEN itemsJson
        ELSE IF ~items.ok THEN items
        ELSE IF ~products.ok THEN products
        ELSE Returned([serviceMethod |-> serviceMethod.val, address |-> address.val,
                       phone |-> phone.val, email |-> email.val,
                       products |-> products.val])

\* The query of the store-locator call: the raw payload fields, not the trimmed ones.
LocatorQuery(p, serviceMethod) ==
    <<p.addressLine1.s,
      p.city.s \o <<",", " ">> \o p.region.s \o <<" ">> \o p.postalCode.s,
      IF serviceMethod = <<"Delivery">> THEN <<"Delivery">> ELSE <<"Carryout">> >>

\* Lines 264-287: validate the payload, then call the store locator.
QuoteStart(i, p) ==
    /\ Call(i, "quotePizzaOrder", p)
    /\ LET in == QuoteInput(p)
       IN  IF ~in.ok
           THEN /\ Throw(i, "ValidationError", in.err)
                /\ UNCHANGED requests
           ELSE /\ locals' = [locals EXCEPT ![i].input = <<in.val>>]
                /\ dominosFetchJson(i, "/power/store-locator",
                                    LocatorQuery(p, in.val.serviceMethod), NullData)
                /\ UNCHANGED result
    /\ UNCHANGED <<ops, storage, now, ticks, received, arg, given>>

\* The Order assembled from the inputs (its constant fields left out).
OrderPayload(in, storeId, orderId) ==
    [Address |-> in.address, Email |-> in.email, OrderID |-> orderId,
     Phone |-> in.phone, Products |-> in.products,
     ServiceMethod |-> in.serviceMethod, StoreID |-> storeId]

\* The order payload as a request body: the object built here, known by its OrderID.
OrderBody(orderPayload) == [kind |-> "orderPayload", doc |-> orderPayload.OrderID[1]]

\* Lines 128-321: choose the store, assemble the order, call validate-order.
LocatorReturn(i, res) ==
    /\ IsQuoter(i)
    /\ Returns(i, res, "/power/store-locator")
    /\ LET best == findBestStore(DataOf(res))
           orderPayload == OrderPayload(locals[i].input[1], best.val.storeId,
                                        randomUUID(i, 1))
       IN  IF ~best.ok
           THEN /\ Throw(i, best.err, "")
                /\ UNCHANGED <<requests>>
           ELSE /\ locals' = [locals EXCEPT
                                  ![i].storeId = best.val.storeId,
                                  ![i].store = <<best.val.store>>,
                                  ![i].orderId = orderPayload.OrderID]
                /\ dominosFetchJson(i, "/power/validate-order", <<>>,
                                    OrderBody(orderPayload))
                /\ UNCHANGED result
    /\ UNCHANGED <<action, payload, ops, storage, now, ticks, arg, given>>

\* The rejection quotePizzaOrder returns (lines 325-331).
Rejection(validated) ==
    [NoResult EXCEPT
         !.out = "returned", !.ok = FALSE, !.step = "validate-order",
         !.status = StatusOf(validated),
         !.message = IF Truthy(MessageOf(validated)) THEN MessageOf(validated)
                     ELSE JsStr(<<"Order validation failed.">>),
         !.data = <<validated>>]

\* A variant that prices the order that was sent to validate-order.
PriceBodyResent(orderPayload, validated) == orderPayload

\* body: validated (line 336).
PriceBody(orderPayload, validated) == validated

\* Lines 323-337: a rejection is returned, an acceptance priced.
ValidateReturn(i, res) ==
    /\ IsQuoter(i)
    /\ Returns(i, res, "/power/validate-order")
    /\ LET validated == DataOf(res)
       IN  IF ValidationRejected(validated)
           THEN /\ Return(i, Rejection(validated))
                /\ UNCHANGED requests
           ELSE /\ locals' = [locals EXCEPT ![i].validated = <<validated>>]
                /\ dominosFetchJson(i, "/power/price-order", <<>>,
                                    PriceBody(http[i].body, validated))
                /\ UNCHANGED result
    /\ UNCHANGED <<action, payload, ops, storage, now, ticks, arg, given>>

\* The record storage.set is called with; createdAt is read when the call is made.
QuoteRecord(createdAt, storeId, serviceMethod, store, priced) ==
    [createdAt |-> createdAt, storeId |-> storeId, serviceMethod |-> serviceMethod,
     storeHint |-> [StoreID |-> store.StoreID], pricedDraft |-> priced]

\* Lines 339-348: draw the token and call storage.set.
PriceReturn(i, res) ==
    /\ IsQuoter(i)
    /\ Returns(i, res, "/power/price-order")
    /\ pc' = [pc EXCEPT ![i] = "set"]
    /\ http' = [http EXCEPT ![i] = NoFrame]
    /\ locals' = [locals EXCEPT
                      ![i].priced = <<DataOf(res)>>,
                      ![i].orderToken = randomUUID(i, 2),
                      ![i].record =
                          <<QuoteRecord(now, locals[i].storeId,
                                        locals[i].input[1].serviceMethod,
                                        locals[i].store[1], DataOf(res))>>]
    /\ UNCHANGED <<action, payload, result, ops, storage, now, ticks, requests,
                   arg, given>>

\* What quotePizzaOrder returns on success (lines 350-356).
Quoted(orderToken, priced) ==
    [NoResult EXCEPT !.out = "returned", !.ok = TRUE, !.orderToken = orderToken,
                     !.quote = <<summarizeQuote(priced).val>>]

\* Lines 342-357: the write lands; the summary is then made, and the token
\* returned with it.
QuoteSet(i) ==
    /\ IsQuoter(i)
    /\ pc[i] = "set"
    /\ storage' = StorageSet(storage, QuoteKey(locals[i].orderToken), locals[i].record[1])
    /\ ops' = [ops EXCEPT ![i].set = @ + 1]
    /\ IF summarizeQuote(locals[i].priced[1]).ok
       THEN Return(i, Quoted(locals[i].orderToken, locals[i].priced[1]))
       ELSE Throw(i, summarizeQuote(locals[i].priced[1]).err, "")
    /\ UNCHANGED <<action, payload, now, ticks, requests, received, arg, given>>

(***************************************************************************)
(* placePizzaOrder.                                                        *)
(***************************************************************************)
\* A variant of the gate that lets any truthy confirm through.
ConfirmedTruthy(confirm) == Truthy(confirm)

\* confirm === true (the gate of line 365 is its negation).
Confirmed(confirm) == confirm = JsTrue

\* Lines 364-371: the token, the confirm gate, then the call of storage.get.
PlaceStart(i, p) ==
    /\ Call(i, "placePizzaOrder", p)
    /\ LET orderToken == assertString(p.orderToken, "orderToken")
       IN  IF ~orderToken.ok THEN Throw(i, "ValidationError", orderToken.err)
           ELSE IF ~Confirmed(p.confirm) THEN Throw(i, "ConfirmationRequired", "confirm")
           ELSE /\ pc' = [pc EXCEPT ![i] = "get"]
                /\ locals' = [locals EXCEPT ![i].orderToken = orderToken.val]
                /\ UNCHANGED <<http, result>>
    /\ UNCHANGED <<ops, storage, now, ticks, requests, received, arg, given>>

\* A variant that calls a record expired already at the TTL.
ExpiredAtTtl(saved, at) == at - saved.createdAt >= QUOTE_TTL_MS

\* A variant that never calls a record expired.
ExpiredNever(saved, at) == FALSE

\* Date.now() - saved.createdAt > QUOTE_TTL_MS
Expired(saved, at) == at - saved.createdAt > QUOTE_TTL_MS

\* A variant of the read that takes the record out of storage as it reads it,
\* as an exclusive consumption would.
PlaceTake(i) ==
    /\ IsPlacer(i)
    /\ pc[i] = "get"
    /\ ops' = [ops EXCEPT ![i].get = @ + 1]
    /\ storage' = StorageDelete(storage, QuoteKey(locals[i].orderToken))
    /\ LET saved == StorageGet(storage, QuoteKey(locals[i].orderToken))
       IN  IF saved = <<>>
           THEN /\ Throw(i, "UnknownOrExpiredToken", "orderToken")
                /\ UNCHANGED requests
           ELSE /\ locals' = [locals EXCEPT ![i].saved = saved, ![i].checkedAt = now]
                /\ dominosFetchJson(i, "/power/place-order", <<>>,
                                    saved[1].pricedDraft)
                /\ UNCHANGED result
    /\ UNCHANGED <<action, payload, now, ticks, received, arg, given>>

\* Lines 371-383: storage.get resolves; an unknown token throws, an expired
\* record is sent to storage.delete, a live one to place-order.
PlaceGet(i) ==
    /\ IsPlacer(i)
    /\ pc[i] = "get"
    /\ ops' = [ops EXCEPT ![i].get = @ + 1]
    /\ LET saved == StorageGet(storage, QuoteKey(locals[i].orderToken))
       IN  IF saved = <<>>
           THEN /\ Throw(i, "UnknownOrExpiredToken", "orderToken")
                /\ UNCHANGED requests
           ELSE /\ locals' = [locals EXCEPT ![i].saved = saved, ![i].checkedAt = now]
                /\ IF Expired(saved[1], now)
                   THEN /\ pc' = [pc EXCEPT ![i] = "expire"]
                        /\ UNCHANGED <<http, result, requests>>
                   ELSE /\ dominosFetchJson(i, "/power/place-order", <<>>,
                                            saved[1].pricedDraft)
                        /\ UNCHANGED result
    /\ UNCHANGED <<action, payload, storage, now, ticks, received, arg, given>>

\* Lines 375-376: the expired record is deleted, then QuoteExpired is thrown.
PlaceExpire(i) ==
    /\ IsPlacer(i)
    /\ pc[i] = "expire"
    /\ storage' = StorageDelete(storage, QuoteKey(locals[i].orderToken))
    /\ ops' = [ops EXCEPT ![i].delete = @ + 1]
    /\ Throw(i, "QuoteExpired", "orderToken")
    /\ UNCHANGED <<action, payload, now, ticks, requests, received, arg, given>>

\* Lines 380-386: place-order answered with success; storage.delete is called.
PlaceReturn(i, res) ==
    /\ IsPlacer(i)
    /\ Returns(i, res, "/power/place-order")
    /\ pc' = [pc EXCEPT ![i] = "delete"]
    /\ http' = [http EXCEPT ![i] = NoFrame]
    /\ locals' = [locals EXCEPT ![i].placed = <<DataOf(res)>>]
    /\ UNCHANGED <<action, payload, result, ops, storage, now, ticks, requests,
                   arg, given>>

\* A variant of the ending that returns the placement and leaves the draft.
PlaceDeleteKeeps(i) ==
    /\ IsPlacer(i)
    /\ pc[i] = "delete"
    /\ ops' = [ops EXCEPT ![i].delete = @ + 1]
    /\ Return(i, [NoResult EXCEPT !.out = "returned", !.ok = TRUE,
                                  !.data = locals[i].placed])
    /\ UNCHANGED <<action, payload, storage, now, ticks, requests, received,
                   arg, given>>

\* Lines 386-393: the draft is deleted and the placement returned.
PlaceDelete(i) ==
    /\ IsPlacer(i)
    /\ pc[i] = "delete"
    /\ storage' = StorageDelete(storage, QuoteKey(locals[i].orderToken))
    /\ ops' = [ops EXCEPT ![i].delete = @ + 1]
    /\ Return(i, [NoResult EXCEPT !.out = "returned", !.ok = TRUE,
                                  !.data = locals[i].placed])
    /\ UNCHANGED <<action, payload, now, ticks, requests, received, arg, given>>

(***************************************************************************)
(* getDominosMenu.                                                         *)
(***************************************************************************)
MAX_MENU_RESULTS == 250

\* menu?.Products as [code, name] entries, in key order.
ProductsOf(menu) ==
    IF menu.kind = "json" /\ menu.doc = "{Products,Categories}"
    THEN << [code |-> <<"14screen">>, name |-> <<"large", " ", "pizza">>],
            [code |-> <<"12screen">>, name |-> <<"medium", " ", "pizza">>] >>
    ELSE <<>>

\* hay.includes(needle), for a needle of one run of text.
Includes(hay, needle) == \E k \in 1..Len(hay) : <<hay[k]>> = needle

\* s.slice(0, n)
Slice(s, n) == SubSeq(s, 1, IF Len(s) < n THEN Len(s) ELSE n)

\* The entries that match the search, cut at MAX_MENU_RESULTS.
MenuFiltered(menu, search) ==
    Slice(SelectSeq(ProductsOf(menu), LAMBDA e :
                        search = <<>> \/ Includes(e.code \o <<" ">> \o e.name, search)),
          MAX_MENU_RESULTS)

\* Lines 201-208: storeId is required; the menu of the store is fetched.
MenuStart(i, p) ==
    /\ Call(i, "getDominosMenu", p)
    /\ LET storeId == assertString(p.storeId, "storeId")
       IN  IF ~storeId.ok
           THEN /\ Throw(i, "ValidationError", storeId.err)
                /\ UNCHANGED requests
           ELSE /\ locals' = [locals EXCEPT
                                  ![i].storeId = storeId.val,
                                  ![i].search = assertOptionalString(p.search)]
                /\ dominosFetchJson(i, "/power/store/{storeId}/menu",
                                    <<<<"en">>, <<"true">> >>, NullData)
                /\ UNCHANGED result
    /\ UNCHANGED <<ops, storage, now, ticks, received, arg, given>>

\* Lines 210-253: the matching products are returned, a sample of 50 when
\* there is no search term.
MenuReturn(i, res) ==
    /\ IsMenu(i)
    /\ Returns(i, res, "/power/store/{storeId}/menu")
    /\ LET filtered == MenuFiltered(DataOf(res), locals[i].search)
       IN  Return(i, [NoResult EXCEPT
                          !.out = "returned", !.ok = TRUE,
                          !.data = IF locals[i].search = <<>>
                                   THEN Slice(filtered, 50) ELSE filtered])
    /\ UNCHANGED <<action, payload, ops, storage, now, ticks, requests,
                   arg, given>>

(***************************************************************************)
(* The clock.  Date.now() is compared only with the createdAt of a quote   *)
(* record, so it is let advance once a record has been made.               *)
(***************************************************************************)
\* The jumps tried: to the last instant a record is honoured, and just past it.
TickSteps == {QUOTE_TTL_MS, QUOTE_TTL_MS + 1}

Tick(d) ==
    /\ ticks < MaxTicks
    /\ storage # << >>
    /\ now' = now + d
    /\ ticks' = ticks + 1
    /\ UNCHANGED <<action, pc, payload, http, locals, result, ops, storage,
                   requests, received, arg, given>>

(***************************************************************************)
(* The payloads the actions are called with.                               *)
(***************************************************************************)
\* A field the payload does not carry is undefined.
GoodQuote ==
    [serviceMethod |-> JsStr(<<"delivery">>),
     addressLine1 |-> JsStr(<<"93", " ", "monitor", " ", "st">>),
     addressLine2 |-> JsUndefined,
     city |-> JsStr(<<"brooklyn">>),
     region |-> JsStr(<<"ny">>),
     postalCode |-> JsStr(<<"11222">>),
     phone |-> JsStr(<<"5551112222">>),
     email |-> JsStr(<<"test@example.com">>),
     itemsJson |-> JsStr(<<"[", "{Code:a,Qty:1}", "]">>)]

\* The tokens quotes have returned so far.
KnownTokens == {result[q].orderToken : q \in {q \in Proc : IsQuoter(q) /\ result[q].ok}}

\* Every token a quote can return.
Tokens == {randomUUID(i, 2) : i \in Proc}

\* GoodQuote with one field, or two, given another value.
With(p, field, value) == [p EXCEPT ![field] = value]

\* The fields quotePizzaOrder requires as non-blank strings.
RequiredFields == {"addressLine1", "city", "region", "postalCode", "phone", "email"}

\* A required field left out or left blank.
BlankValues == {JsUndefined, JsNull, JsStr(<<>>), JsStr(<<" ">>), JsStr(<<" ", " ">>)}

\* Texts that are not JSON.
NotJsonTexts ==
    {<<"oops">>, <<"[", "{Code:a,Qty:1}">>, <<"[", "{Code:a,Qty:1}", ",", "]">>,
     <<"{Code:a,Qty:1}", "{Code:a,Qty:1}">>}

\* JSON that is an empty list, or no list.
NotAListTexts ==
    {<<"[", "]">>, <<"[", " ", "]">>, <<"{Code:a,Qty:1}">>, <<"7">>, <<"null">>}

\* Items with a blank code, or a quantity that is not positive or not finite.
BadItems ==
    {"{Code:_,Qty:1}", "{Code:a,Qty:0}", "{Code:a,Qty:-1}", "{Code:a,Qty:1e999}",
     "{Code:a,Qty:'x'}"}

\* Lists holding such an item, first or second.
BadItemTexts ==
    {<<"[", b, "]">> : b \in BadItems}
        \cup {<<"[", "{Code:a,Qty:1}", ",", " ", b, "]">> : b \in BadItems}

\* Service methods that are neither DELIVERY nor CARRYOUT.
UnrecognizedMethods ==
    {JsStr(<<"pickup">>), JsStr(<<" ", "pickup", " ">>), JsNum(7), JsTrue}

\* Other lists: items that are no objects, or lack Code or Qty.
OddItemTexts ==
    {<<"[", b, "]">> :
         b \in {"{Qty:1}", "{Code:7,Qty:1}", "{Code:a}", "{code:a,quantity:1}",
                "null", "7"}}

\* Payloads the validation turns down.
BadQuotes ==
    {With(GoodQuote, f, v) : f \in RequiredFields, v \in BlankValues \cup {JsNum(7)}}
        \cup {With(GoodQuote, "itemsJson", v) : v \in BlankValues \cup {JsNum(7)}}
        \cup {With(GoodQuote, "itemsJson", JsStr(w)) :
                  w \in NotJsonTexts \cup NotAListTexts \cup BadItemTexts
                            \cup OddItemTexts}
        \cup {With(GoodQuote, "serviceMethod", v) : v \in UnrecognizedMethods}
        \cup {With(With(GoodQuote, "city", JsStr(<<" ">>)), "itemsJson", JsStr(<<"oops">>)),
              With(With(GoodQuote, "serviceMethod", JsStr(<<"pickup">>)), "phone",
                   JsUndefined),
              With(With(GoodQuote, "email", JsNull), "addressLine2", JsNum(7))}

\* Payloads it lets through: the service method defaulted or in another
\* spelling, padded fields, a second address line, other items.
FineQuotes ==
    {GoodQuote,
     With(GoodQuote, "serviceMethod", JsUndefined),
     With(GoodQuote, "serviceMethod", JsStr(<<" ", "carryout", " ">>)),
     With(With(GoodQuote, "addressLine1", JsStr(<<" ", "93", " ", "monitor", " ", "st", " ">>)),
          "addressLine2", JsStr(<<"apt", " ", "4">>)),
     With(GoodQuote, "addressLine2", JsNum(7)),
     With(GoodQuote, "itemsJson",
          JsStr(<<" ", "[", "{Code:b,Qty:2,ID:7}", ",", "{Code:_a_,Qty:'2'}", "]">>)),
     With(GoodQuote, "itemsJson", JsStr(<<"[", "{Code:a,Qty:0.5}", "]">>)),
     With(GoodQuote, "itemsJson", JsStr(<<"[", "{Code:a,Qty:1.5}", "]">>))}

QuotePayloads == FineQuotes \cup BadQuotes

PlacePayload(orderToken, confirm) == [orderToken |-> orderToken, confirm |-> confirm]

\* The token the first invocation returns if it is a quote, as it is and
\* padded; a token no quote returned; and no token at all.
TokenSamples ==
    {JsStr(randomUUID(1, 2)), JsStr(<<" ">> \o randomUUID(1, 2) \o <<" ">>),
     JsStr(<<"x">>), JsStr(<<>>), JsStr(<<" ">>), JsUndefined, JsNull, JsNum(7)}

ConfirmSamples == {JsTrue, JsFalse, JsUndefined, JsNull, JsStr(<<"true">>), JsNum(1)}

MenuPayload(storeId, search) == [storeId |-> storeId, search |-> search]

MenuPayloads ==
    {MenuPayload(JsStr(<<"7">>), JsUndefined),
     MenuPayload(JsStr(<<" ", "7">>), JsStr(<<"large">>)),
     MenuPayload(JsStr(<<"7">>), JsStr(<<" ">>)),
     MenuPayload(JsNum(7), JsUndefined),
     MenuPayload(JsUndefined, JsStr(<<"large">>))}

(***************************************************************************)
(* Spec: quotes and confirmed placements race.  Up to MaxCalls invocations *)
(* are made, MaxRunning at a time; a placement names a token some quote    *)
(* has returned; the upstream answers each call with an accepting         *)
(* document or with a client error, so that no request is retried.         *)
(***************************************************************************)
Next ==
    \/ \E i \in Proc : QuoteStart(i, GoodQuote)
    \/ \E i \in Proc, t \in Tokens :
           t \in KnownTokens /\ PlaceStart(i, PlacePayload(JsStr(t), JsTrue))
    \/ \E i \in Proc, res \in FewResponses :
           \/ FetchThrow(i, res)
           \/ LocatorReturn(i, res)
           \/ ValidateReturn(i, res)
           \/ PriceReturn(i, res)
           \/ PlaceReturn(i, res)
    \/ \E i \in Proc :
           \/ QuoteSet(i)
           \/ PlaceGet(i)
           \/ PlaceExpire(i)
           \/ PlaceDelete(i)
    \/ \E d \in TickSteps : Tick(d)

Spec == Init /\ [][Next]_vars

(***************************************************************************)
(* SpecInputs: the first invocation is a quote and the second a placement, *)
(* each called with any of the sampled payloads.                           *)
(***************************************************************************)
NextInputs ==
    \/ \E p \in QuotePayloads : QuoteStart(1, p)
    \/ \E t \in TokenSamples, c \in ConfirmSamples : PlaceStart(2, PlacePayload(t, c))
    \/ \E i \in {1, 2}, res \in FewResponses :
           \/ FetchThrow(i, res)
           \/ LocatorReturn(i, res)
           \/ ValidateReturn(i, res)
           \/ PriceReturn(i, res)
           \/ PlaceReturn(i, res)
    \/ \E i \in {1, 2} :
           \/ QuoteSet(i)
           \/ PlaceGet(i)
           \/ PlaceExpire(i)
           \/ PlaceDelete(i)
    \/ \E d \in TickSteps : Tick(d)

SpecInputs == Init /\ [][NextInputs]_vars

(***************************************************************************)
(* SpecHttp: one invocation, a quote or a menu lookup, against every kind  *)
(* of answer of the upstream, retried answers among them.                  *)
(***************************************************************************)
NextHttp ==
    \/ QuoteStart(1, GoodQuote)
    \/ \E p \in MenuPayloads : MenuStart(1, p)
    \/ \E res \in AllResponses :
           \/ FetchMalformed(1, res)
           \/ FetchThrow(1, res)
           \/ LocatorReturn(1, res)
           \/ ValidateReturn(1, res)
           \/ PriceReturn(1, res)
           \/ MenuReturn(1, res)
    \/ \E res \in AllResponses, jitter \in Jitters : FetchSleep(1, res, jitter)
    \/ FetchReject(1)
    \/ Backoff(1)
    \/ QuoteSet(1)

SpecHttp == Init /\ [][NextHttp]_vars

\* The same where every fetch settles, with an answer or a failure, and every
\* timer set fires: what the runtime's fetch and setTimeout provide.
FetchSettles ==
    \/ \E res \in AllResponses :
           \/ FetchMalformed(1, res)
           \/ FetchThrow(1, res)
           \/ LocatorReturn(1, res)
           \/ ValidateReturn(1, res)
           \/ PriceReturn(1, res)
           \/ MenuReturn(1, res)
    \/ \E res \in AllResponses, jitter \in Jitters : FetchSleep(1, res, jitter)
    \/ FetchReject(1)

SpecHttpFair == SpecHttp /\ WF_vars(FetchSettles) /\ WF_vars(Backoff(1))

(***************************************************************************)
(* SpecSerial: as Spec, but a placement is called only when every          *)
(* placement called before it has settled; quotes run as they like.        *)
(***************************************************************************)
NoPlacementRunning == \A k \in Proc : IsPlacer(k) => pc[k] = "done"

NextSerial ==
    \/ \E i \in Proc : QuoteStart(i, GoodQuote)
    \/ \E i \in Proc, t \in Tokens :
           /\ t \in KnownTokens
           /\ NoPlacementRunning
           /\ PlaceStart(i, PlacePayload(JsStr(t), JsTrue))
    \/ \E i \in Proc, res \in FewResponses :
           \/ FetchThrow(i, res)
           \/ LocatorReturn(i, res)
           \/ ValidateReturn(i, res)
           \/ PriceReturn(i, res)
           \/ PlaceReturn(i, res)
    \/ \E i \in Proc :
           \/ QuoteSet(i)
           \/ PlaceGet(i)
           \/ PlaceExpire(i)
           \/ PlaceDelete(i)
    \/ \E d \in TickSteps : Tick(d)

SpecSerial == Init /\ [][NextSerial]_vars

(***************************************************************************)
(* SpecFunctions: a helper function of src/index.js is evaluated on one of *)
(* the sampled arguments; nothing else runs.                               *)
(***************************************************************************)
\* The stores a list is made of: the one at position k has the identifier k.
StoreKinds(k) ==
    LET id == JsStr(<< <<"1", "2", "3", "4", "5">>[k] >>)
    IN  {Store(id, FALSE, FALSE, FALSE), Store(id, FALSE, TRUE, FALSE),
         Store(id, TRUE, FALSE, FALSE), Store(id, TRUE, TRUE, FALSE),
         Store(id, TRUE, FALSE, TRUE)}

\* Every list of 1..MaxStores such stores.
StoreLists ==
    UNION {{l \in [1..n -> UNION {StoreKinds(k) : k \in 1..n}] :
                \A k \in 1..n : l[k] \in StoreKinds(k)} : n \in 1..MaxStores}

\* The amounts objects: each candidate field is absent, 0, or an amount of
\* its own.
AmountFields == <<"Customer", "Payment", "Order", "Total", "Amount">>

AmountsObjects ==
    {a \in [{AmountFields[k] : k \in 1..5} ->
                {JsUndefined, JsNum(0)} \cup {JsNum(k) : k \in 1..5}] :
         \A k \in 1..5 : a[AmountFields[k]] \in {JsUndefined, JsNum(0), JsNum(k)}}

\* The itemsJson texts that are arrays of 1..MaxItems of the item literals.
RECURSIVE Commas(_)
Commas(lits) ==
    IF Len(lits) = 1 THEN lits
    ELSE <<Head(lits), ",">> \o Commas(Tail(lits))

ItemTexts ==
    UNION {{<<"[">> \o Commas(l) \o <<"]">> : l \in [1..n -> ItemLiterals]} :
               n \in 1..MaxItems}

InitFunctions ==
    /\ Loaded
    /\ \/ arg \in {[fn |-> "findBestStore", in |-> l] : l \in StoreLists}
       \/ arg \in {[fn |-> "summarizeQuote", in |-> a] : a \in AmountsObjects}
       \/ arg \in {[fn |-> "buildProducts", in |-> t] : t \in ItemTexts}
    /\ given = <<>>

\* findBestStore makes its choice among the stores given.
EvalFindBestStore ==
    /\ arg.fn = "findBestStore"
    /\ given = <<>>
    /\ given' = <<findBestStoreAmong(arg.in)>>
    /\ UNCHANGED <<action, pc, payload, http, locals, result, ops, storage, now,
                   ticks, requests, received, arg>>

\* summarizeQuote works out the total of the amounts given.
EvalSummarizeQuote ==
    /\ arg.fn = "summarizeQuote"
    /\ given = <<>>
    /\ given' = <<QuoteTotal(arg.in)>>
    /\ UNCHANGED <<action, pc, payload, http, locals, result, ops, storage, now,
                   ticks, requests, received, arg>>

\* buildProducts is applied to the items an itemsJson text parsed to.
EvalBuildProducts ==
    /\ arg.fn = "buildProducts"
    /\ given = <<>>
    /\ given' = <<buildProducts(arg.in)>>
    /\ UNCHANGED <<action, pc, payload, http, locals, result, ops, storage, now,
                   ticks, requests, received, arg>>

NextFunctions ==
    \/ EvalFindBestStore
    \/ EvalSummarizeQuote
    \/ EvalBuildProducts

SpecFunctions == InitFunctions /\ [][NextFunctions]_vars

(***************************************************************************)
(* Properties.                                                             *)
(***************************************************************************)
\* The requests invocation i has sent to a path.
Sent(i, path) == {r \in requests : r.by = i /\ r.path = path}

\* The token a placement was called with, trimmed, and the key it names.
TokenOf(i) == Trim(payload[i][1].orderToken.s)

KeyOf(i) == QuoteKey(TokenOf(i))

\* The placements called with confirm = true and a token that is a string.
ConfirmedPlacer(i) ==
    /\ IsPlacer(i)
    /\ payload[i][1].confirm = JsTrue
    /\ payload[i][1].orderToken.t = "string"

\* Invocation i's storage.get, or storage.delete, resolves in this step.
Reads(i) == ops'[i].get = ops[i].get + 1

Deletes(i) == ops'[i].delete = ops[i].delete + 1

\* C2: once a confirmed placement has submitted a stored quote to place-order,
\* the quote record of its token is absent from storage when the attempt has
\* ended, whether place-order returned or raised.
C2_RecordGoneAfterAttempt ==
    \A i \in Proc :
        (ConfirmedPlacer(i) /\ pc[i] = "done" /\ Sent(i, "/power/place-order") # {})
            => KeyOf(i) \notin DOMAIN storage

\* C4: when a confirmed placement reads a record older than the TTL, it sends
\* no place-order request and goes on to delete the record and fail with
\* QuoteExpired; when the record's age is at most the TTL, it is not turned
\* down as expired: its draft is sent to place-order.
C4_ExpiredIsDeletedNotPlaced ==
    [][\A i \in Proc :
           /\ (ConfirmedPlacer(i) /\ Reads(i) /\ KeyOf(i) \in DOMAIN storage)
                  => IF now - storage[KeyOf(i)].createdAt > 30 * 60 * 1000
                     THEN /\ pc'[i] = "expire"
                          /\ requests' = requests
                     ELSE /\ pc'[i] = "fetch"
                          /\ Request(i, "/power/place-order", <<>>,
                                     storage[KeyOf(i)].pricedDraft, 1) \in requests'
           /\ (ConfirmedPlacer(i) /\ pc[i] = "expire" /\ pc'[i] # "expire")
                  => /\ Deletes(i)
                     /\ KeyOf(i) \notin DOMAIN storage'
                     /\ pc'[i] = "done"
                     /\ result'[i].out = "threw"
                     /\ result'[i].err = "QuoteExpired"
                     /\ requests' = requests
                     /\ Sent(i, "/power/place-order") = {}
      ]_vars

\* C4 happens: a placement has failed with QuoteExpired, having deleted the record.
C4_Witness ==
    \E i \in Proc :
        /\ ConfirmedPlacer(i)
        /\ pc[i] = "done"
        /\ result[i].err = "QuoteExpired"
        /\ ops[i].delete = 1
        /\ KeyOf(i) \notin DOMAIN storage
        /\ Sent(i, "/power/place-order") = {}

\* C5: a placement's read of the quote record leaves the record in storage,
\* so that a second placement on the same token can read it too before either
\* deletes it; nothing makes the two exclude each other.
C5_ReadLeavesRecord ==
    [][\A i \in Proc : (IsPlacer(i) /\ Reads(i)) => storage' = storage]_vars

\* C5 happens: two placements on one token have both sent the same priced
\* draft to place-order, and both have returned a placed order.
C5_DuplicatePlacement ==
    \E i, j \in Proc :
        /\ i # j
        /\ ConfirmedPlacer(i) /\ ConfirmedPlacer(j)
        /\ TokenOf(i) = TokenOf(j)
        /\ pc[i] = "done" /\ result[i].ok
        /\ pc[j] = "done" /\ result[j].ok
        /\ \E r \in Sent(i, "/power/place-order"), q \in Sent(j, "/power/place-order") :
               r.body = q.body

\* A string with something other than blanks in it.
NonBlankString(v) == v.t = "string" /\ \E k \in 1..Len(v.s) : v.s[k] # " "

\* Invocation i made no storage call and sent no request.
Untouched(i) ==
    /\ ops[i] = [get |-> 0, set |-> 0, delete |-> 0]
    /\ {r \in requests : r.by = i} = {}

C3_PlaceOrderOnlyBehindTheGate ==
    [][\A r \in requests' \ requests :
           r.path = "/power/place-order"
               => /\ IsPlacer(r.by)
                  /\ payload[r.by][1].confirm = JsTrue
                  /\ IF r.attempt = 1
                     THEN /\ Reads(r.by)
                          /\ KeyOf(r.by) \in DOMAIN storage
                          /\ now - storage[KeyOf(r.by)].createdAt <= 30 * 60 * 1000
                          /\ r.body = storage[KeyOf(r.by)].pricedDraft
                     ELSE Sent(r.by, "/power/place-order") # {}
      ]_vars

\* C3 happens: a confirmed placement has sent a place-order request, while an
\* earlier quote has sent none.
C3_Witness ==
    \E i, q \in Proc :
        /\ ConfirmedPlacer(i)
        /\ Sent(i, "/power/place-order") # {}
        /\ IsQuoter(q)
        /\ pc[q] = "done"
        /\ Sent(q, "/power/place-order") = {}

\* What C6 calls a malformed quote input.
Malformed(p) ==
    \/ \E f \in RequiredFields : p[f] \in BlankValues
    \/ p.itemsJson \in BlankValues
    \/ /\ p.itemsJson.t = "string"
       /\ p.itemsJson.s \in NotJsonTexts \cup NotAListTexts \cup BadItemTexts
    \/ p.serviceMethod \in UnrecognizedMethods

\* C6: a quotePizzaOrder called with a malformed input (a required field blank
\* or missing, an itemsJson that is not JSON, an empty list or no list, an
\* item with a blank code or a quantity not positive or not finite, a service
\* method not recognized) fails with a ValidationError, having sent no request
\* and made no storage call.
C6_MalformedQuoteFailsFirst ==
    \A i \in Proc :
        (IsQuoter(i) /\ Malformed(payload[i][1]))
            => /\ pc[i] = "done"
               /\ result[i].out = "threw"
               /\ result[i].err = "ValidationError"
               /\ Untouched(i)
               /\ storage = << >>

\* C6 happens: a quote whose second item has a quantity that is not positive
\* has failed on that item's Qty.
C6_Witness ==
    \E i \in Proc :
        /\ IsQuoter(i)
        /\ payload[i][1].itemsJson =
               JsStr(<<"[", "{Code:a,Qty:1}", ",", " ", "{Code:a,Qty:0}", "]">>)
        /\ result[i].err = "ValidationError"
        /\ result[i].field = "itemsJson[idx].Qty"
        /\ Untouched(i)

\* The answer invocation i last received is a success answer to a path.
GotOk(i, path) ==
    /\ received[i] # <<>>
    /\ received[i][1].path = path
    /\ received[i][1].res.status \in 200..299

\* The validate-order documents whose Status is not zero and not "0".
RejectingDocs == {"{Status:1,Message}", "{Status:-1}"}

C8_RetryOnlyAfter429Or5xx ==
    [][/\ \A r \in requests' : r.attempt \in 1..4
       /\ \A r \in requests' \ requests :
              r.attempt > 1
                  => /\ received[r.by] # <<>>
                     /\ received[r.by][1].path = r.path
                     /\ received[r.by][1].attempt = r.attempt - 1
                     /\ r.attempt - 1 < 4
                     /\ \/ received[r.by][1].res.status = 429
                        \/ received[r.by][1].res.status \in 500..599
      ]_vars

\* C8 happens: a call has given up after its fourth fetch was answered 503.
C8_Witness ==
    \E i \in Proc :
        /\ pc[i] = "done"
        /\ result[i].err = "UpstreamError"
        /\ result[i].httpStatus = 503
        /\ received[i][1].attempt = 4
        /\ \E r \in requests : r.by = i /\ r.attempt = 4

\* C9: within a quotePizzaOrder invocation the validate-order request is first
\* sent in the step that receives a success answer to store-locator, the
\* price-order request in the step that receives one to validate-order, and
\* storage.set is called in the step that receives one to price-order; the
\* invocation returns ok = true with a non-empty orderToken in the step in
\* which its storage.set completes, the record then being in storage.
C9_QuoteStepsInOrder ==
    [][\A i \in Proc :
           IsQuoter(i)' =>
               /\ \A r \in requests' \ requests :
                      (r.by = i /\ r.attempt = 1) =>
                          CASE r.path = "/power/store-locator" ->
                                   {q \in requests : q.by = i} = {}
                            [] r.path = "/power/validate-order" ->
                                   /\ GotOk(i, "/power/store-locator")'
                                   /\ Sent(i, "/power/store-locator") # {}
                                   /\ Sent(i, "/power/price-order") = {}
                            [] r.path = "/power/price-order" ->
                                   /\ GotOk(i, "/power/validate-order")'
                                   /\ Sent(i, "/power/validate-order") # {}
                                   /\ ops[i].set = 0
                            [] OTHER -> FALSE
               /\ (pc'[i] = "set" /\ pc[i] # "set")
                      => /\ GotOk(i, "/power/price-order")'
                         /\ Sent(i, "/power/price-order") # {}
                         /\ ops[i].set = 0
                         /\ storage' = storage
               /\ (result'[i].ok /\ ~result[i].ok)
                      => /\ pc[i] = "set"
                         /\ ops'[i].set = 1
                         /\ result'[i].orderToken # <<>>
                         /\ QuoteKey(result'[i].orderToken) \in DOMAIN storage'
      ]_vars

\* C9 happens: a quote has returned ok = true after its three requests and
\* its storage.set.
C9_Witness ==
    \E i \in Proc :
        /\ IsQuoter(i)
        /\ pc[i] = "done"
        /\ result[i].ok
        /\ Sent(i, "/power/store-locator") # {}
        /\ Sent(i, "/power/validate-order") # {}
        /\ Sent(i, "/power/price-order") # {}
        /\ ops[i].set = 1
        /\ QuoteKey(result[i].orderToken) \in DOMAIN storage

\* C10: a quotePizzaOrder invocation that has ended has written a quote
\* record exactly when it returned ok = true, and then once: never when it
\* failed or was turned down.
C10_RecordOnlyByOkQuote ==
    \A i \in Proc :
        (IsQuoter(i) /\ pc[i] = "done")
            => /\ ops[i].set <= 1
               /\ ops[i].set = 1 <=> (result[i].out = "returned" /\ result[i].ok)

\* How much findBestStore likes a store: online and open, online, or neither.
Rank(s) ==
    IF s.IsOnlineNow /\ (s.IsOpen \/ s.ServiceIsOpen) THEN 2
    ELSE IF s.IsOnlineNow THEN 1
    ELSE 0

\* C11: for every non-empty list of stores, findBestStore chooses the first
\* store that is online and open if there is one, else the first that is
\* online if there is one, else the first of the list: the store it chooses
\* is liked no less than any store of the list, and more than any before it.
C11_BestStoreByPreference ==
    (arg.fn = "findBestStore" /\ given # <<>>)
        => /\ given[1].ok
           /\ \E k \in 1..Len(arg.in) :
                  /\ given[1].val.store = arg.in[k]
                  /\ given[1].val.storeId = arg.in[k].StoreID.s
                  /\ \A j \in 1..Len(arg.in) : Rank(arg.in[j]) <= Rank(arg.in[k])
                  /\ \A j \in 1..(k - 1) : Rank(arg.in[j]) < Rank(arg.in[k])

\* C11 happens: the third store, online and open, has been chosen over an
\* online store and an unflagged one before it.
C11_Witness ==
    /\ arg.fn = "findBestStore"
    /\ given # <<>>
    /\ Len(arg.in) = 3
    /\ Rank(arg.in[1]) = 1
    /\ Rank(arg.in[2]) = 0
    /\ Rank(arg.in[3]) = 2
    /\ given[1].val.store = arg.in[3]

\* The store-locator answers that hold no store: an empty body, a JSON
\* document without stores, text that is not declared as JSON; and the
\* answers whose preferred store has no identifier.
NoStoreAnswer(res) ==
    \/ res.text \in {<<>>, <<"{}">>, <<"{Stores:[]}">>}
    \/ ~res.isJson /\ res.text = <<"<html>">>

NoIdAnswer(res) ==
    res.isJson /\ res.text \in {<<"{Stores:[noid]}">>, <<"{Stores:[listed,noid]}">>}

\* Invocation i has failed with err before any order request or storage write.
FailedBeforeOrder(i, err) ==
    /\ pc[i] = "done"
    /\ result[i].out = "threw"
    /\ result[i].err = err
    /\ Sent(i, "/power/validate-order") = {}
    /\ Sent(i, "/power/price-order") = {}
    /\ ops[i].set = 0
    /\ storage = << >>

\* C12: when the store-locator answer holds no list of stores or an empty one,
\* the quote fails with NoStoresFound; when the store chosen has no usable
\* identifier it fails with StoreIdMissing; either way no validate-order or
\* price-order request has been sent and nothing has been written to storage.
C12_NoStoreNoOrder ==
    \A i \in Proc :
        (IsQuoter(i) /\ GotOk(i, "/power/store-locator"))
            => /\ NoStoreAnswer(received[i][1].res)
                   => FailedBeforeOrder(i, "NoStoresFound")
               /\ NoIdAnswer(received[i][1].res)
                   => FailedBeforeOrder(i, "StoreIdMissing")

\* C12 happens: a quote has failed on a locator answer whose preferred store
\* has no identifier although another store of the answer has one.
C12_Witness ==
    \E i \in Proc :
        /\ IsQuoter(i)
        /\ GotOk(i, "/power/store-locator")
        /\ received[i][1].res.text = <<"{Stores:[listed,noid]}">>
        /\ result[i].err = "StoreIdMissing"

\* C12 happens as well on an answer without a list of stores.
C12_WitnessNoStores ==
    \E i \in Proc :
        /\ IsQuoter(i)
        /\ GotOk(i, "/power/store-locator")
        /\ received[i][1].res.text = <<"{}">>
        /\ result[i].err = "NoStoresFound"

\* C13: the body of the price-order request is the object validate-order
\* returned, and not the order request that was assembled and sent to
\* validate-order: the first price-order request of an invocation is sent in
\* the step that receives the validate-order answer and carries that answer,
\* which no validate-order request of the invocation carried, and a retry
\* carries what the first request carried.
C13_PriceBodyIsValidated ==
    [][\A r \in requests' \ requests :
           r.path = "/power/price-order" =>
               IF r.attempt = 1
               THEN /\ GotOk(r.by, "/power/validate-order")'
                    /\ r.body = DataOf(received'[r.by][1].res)
                    /\ \A q \in Sent(r.by, "/power/validate-order") :
                           /\ q.body # r.body
                           /\ q.body.kind = "orderPayload"
               ELSE \E q \in Sent(r.by, "/power/price-order") :
                        q.attempt = 1 /\ q.body = r.body
      ]_vars

\* C13 happens: a price-order request has been retried with the validate-order
\* answer that the first request carried.
C13_Witness ==
    \E r \in requests :
        /\ r.path = "/power/price-order"
        /\ r.attempt = 2
        /\ r.body = JsonData("{Status:0,Order}")
        /\ Sent(r.by, "/power/validate-order") # {}

\* C14: a confirmed placement whose token has no record in storage fails
\* with UnknownOrExpiredToken in the step in which its storage.get resolves:
\* it has then read storage exactly once, deleted nothing and sent no upstream
\* request, storage is as it was, and nothing of this changes afterwards.
C14_UnknownTokenOnlyReads ==
    [][\A i \in Proc :
           /\ (ConfirmedPlacer(i) /\ Reads(i) /\ KeyOf(i) \notin DOMAIN storage)
                  => /\ pc'[i] = "done"
                     /\ result'[i].out = "threw"
                     /\ result'[i].err = "UnknownOrExpiredToken"
                     /\ ops'[i] = [get |-> 1, set |-> 0, delete |-> 0]
                     /\ storage' = storage
                     /\ requests' = requests
                     /\ {r \in requests : r.by = i} = {}
           /\ (IsPlacer(i) /\ result[i].err = "UnknownOrExpiredToken")
                  => /\ ops'[i] = ops[i]
                     /\ result'[i] = result[i]
                     /\ {r \in requests' : r.by = i} = {}
      ]_vars

\* C14 happens: a confirmed placement has failed on a token without a record
\* while the record of another token was in storage.
C14_Witness ==
    \E i \in Proc :
        /\ ConfirmedPlacer(i)
        /\ pc[i] = "done"
        /\ result[i].err = "UnknownOrExpiredToken"
        /\ ops[i].get = 1
        /\ DOMAIN storage # {}
        /\ KeyOf(i) \notin DOMAIN storage

\* The first of the candidate fields, from the k-th on, that is present in the
\* amounts; null when there is none.
RECURSIVE FirstPresent(_, _)
FirstPresent(amounts, k) ==
    IF k > Len(AmountFields) THEN JsNull
    ELSE IF amounts[AmountFields[k]] # JsUndefined THEN amounts[AmountFields[k]]
    ELSE FirstPresent(amounts, k + 1)

\* C15: the total summarizeQuote reports is the value of the first field
\* present in the amounts when Customer, Payment, Order, Total and Amount are
\* tried in this order, also when that value is 0, and null when none of
\* them is present.
C15_TotalIsFirstPresent ==
    (arg.fn = "summarizeQuote" /\ given # <<>>)
        => given[1] = FirstPresent(arg.in, 1)

\* The total is the first candidate field that is present and not zero; when
\* there is none it is Customer if present (then 0), else null.
C15_TotalIsFirstNonZero ==
    (arg.fn = "summarizeQuote" /\ given # <<>>)
        => LET nonZero == {k \in 1..5 : arg.in[AmountFields[k]] \notin
                                             {JsUndefined, JsNum(0)}}
           IN  IF nonZero # {}
               THEN given[1] = arg.in[AmountFields[
                                   CHOOSE k \in nonZero : \A j \in nonZero : k <= j]]
               ELSE IF arg.in.Customer # JsUndefined THEN given[1] = JsNum(0)
               ELSE given[1] = JsNull

\* A Customer amount of 0 has been passed over for the Payment amount.
C15_ZeroPassedOver ==
    /\ arg.fn = "summarizeQuote"
    /\ given # <<>>
    /\ arg.in.Customer = JsNum(0)
    /\ arg.in.Payment = JsNum(2)
    /\ given[1] = JsNum(2)

\* C16: every line item buildProducts makes from an accepted list of items
\* has a quantity that is an integer of at least 1, also when the quantity
\* given lies between 0 and 1, and has as its ID the one supplied or, when
\* none was supplied, its position in the list counted from 1.
C16_QuantityAtLeastOne ==
    (arg.fn = "buildProducts" /\ given # <<>> /\ given[1].ok)
        => \A k \in 1..Len(given[1].val) :
               LET p == ItemOf(JsonArrayElements(arg.in)[k])
               IN  /\ given[1].val[k].Qty \in Nat
                   /\ given[1].val[k].Qty >= 1
                   /\ given[1].val[k].ID = IF IsNullish(p.ID) THEN JsNum(k) ELSE p.ID

\* The same without the lower bound: the quantity is a natural number, the
\* ID the one supplied or the position.
C16_QuantityNaturalIdByPosition ==
    (arg.fn = "buildProducts" /\ given # <<>> /\ given[1].ok)
        => \A k \in 1..Len(given[1].val) :
               LET p == ItemOf(JsonArrayElements(arg.in)[k])
               IN  /\ given[1].val[k].Qty \in Nat
                   /\ given[1].val[k].ID = IF IsNullish(p.ID) THEN JsNum(k) ELSE p.ID

\* An item of quantity 0.5 has been accepted as the second of a list and has
\* become a line item of quantity 0.
C16_HalfBecomesZero ==
    /\ arg.fn = "buildProducts"
    /\ given # <<>>
    /\ given[1].ok
    /\ Len(given[1].val) = 2
    /\ JsonArrayElements(arg.in)[2] = "{Code:a,Qty:0.5}"
    /\ given[1].val[2].Qty = 0
    /\ given[1].val[2].ID = JsNum(2)

\* C17: the delay before the retry that follows attempt n of a call is
\* 250 * 2^(n-1) milliseconds plus a jitter of 0 up to, not including, 200,
\* so that the delays of a call grow strictly; a delay is taken only after an
\* answer of status 429 or 5xx to one of the first three attempts, never
\* after the fourth attempt, a success or another failure.
C17_BackoffGrows ==
    [][\A i \in Proc :
           LET n == http[i].attempt
               status == received'[i][1].res.status
           IN  /\ (pc[i] = "fetch" /\ pc'[i] = "sleep")
                      => /\ n \in 1..3
                         /\ status = 429 \/ status \in 500..599
                         /\ http'[i].delay >= 250 * (2 ^ (n - 1))
                         /\ http'[i].delay < 250 * (2 ^ (n - 1)) + 200
                         /\ http'[i].delay > http[i].delay
                         /\ n > 1 => http[i].delay >= 250 * (2 ^ (n - 2))
               /\ (pc[i] = "fetch" /\ received'[i] # received[i]
                       /\ (n = 4 \/ status \in 200..299
                              \/ (status # 429 /\ status \notin 500..599)))
                      => pc'[i] # "sleep"
               /\ pc[i] = "sleep"
                      => (pc'[i] = "sleep" => http'[i].delay = http[i].delay)
      ]_vars

\* C17 happens: a call waits for the third time, longer than a second, after
\* having waited less before.
C17_Witness ==
    \E i \in Proc :
        /\ pc[i] = "sleep"
        /\ http[i].attempt = 3
        /\ http[i].delay = 1199
        /\ received[i][1].res.status = 503

\* Invocation i is inside a call of dominosFetchJson for the path.
InCall(i, path) == pc[i] \in {"fetch", "sleep"} /\ http[i].path = path

Paths ==
    {"/power/store-locator", "/power/validate-order", "/power/price-order",
     "/power/place-order", "/power/store/{storeId}/menu"}

\* A fetch of invocation i is answered in this step.
Answered(i) == pc[i] = "fetch" /\ received'[i] # received[i]

\* The answers whose body is declared as JSON and is not JSON.
Unparseable(res) == res.isJson /\ res.text = <<"<html>">>

\* The call answered by a has returned the body of that answer to its caller,
\* who goes on with it and with nothing of the attempts before.
ReturnedBody(i, a) ==
    /\ pc'[i] # "sleep"
    /\ result'[i].err \notin {"UpstreamError", "UpstreamMalformedResponse", "FetchFailed"}
    /\ result'[i].httpStatus = 0
    /\ CASE a.path = "/power/store-locator" ->
                \/ result'[i].err \in {"NoStoresFound", "StoreIdMissing"}
                \/ \E k \in 1..Len(StoresOf(DataOf(a.res))) :
                       locals'[i].store = <<StoresOf(DataOf(a.res))[k]>>
           [] a.path = "/power/validate-order" ->
                \/ result'[i].out = "returned" /\ result'[i].data = <<DataOf(a.res)>>
                \/ locals'[i].validated = <<DataOf(a.res)>>
           [] a.path = "/power/price-order" -> locals'[i].priced = <<DataOf(a.res)>>
           [] OTHER -> result'[i].out = "returned"

\* The call answered by a has raised the one error that carries the status
\* and the parsed body of a.
RaisedLast(i, a) ==
    /\ pc'[i] = "done"
    /\ result'[i].out = "threw"
    /\ result'[i].err = "UpstreamError"
    /\ result'[i].httpStatus = a.res.status
    /\ result'[i].data = <<DataOf(a.res)>>

\* C18 as stated: a call of dominosFetchJson always ends; an attempt answered
\* with a success status makes it return that answer's body, and otherwise
\* the call goes on to another attempt or raises the error of the status and
\* parsed body of its last attempt.
C18_AsStated ==
    [][\A i \in Proc :
           Answered(i) =>
               LET a == received'[i][1]
               IN  IF a.res.status \in 200..299 THEN ReturnedBody(i, a)
                   ELSE pc'[i] = "sleep" \/ RaisedLast(i, a)
      ]_vars

\* C18: a call of dominosFetchJson whose fetches settle always ends.  An
\* answer whose body is declared as JSON and does not parse ends it at once
\* with UpstreamMalformedResponse, whatever the status.  Otherwise an answer
\* of success status makes it return the body of that answer, the caller
\* seeing nothing of the failures before; an answer of status 429 or 5xx to
\* one of the first three attempts is followed by another attempt; any other
\* answer raises the one error of the call, with the status and the parsed
\* body of that last attempt.  Every call starts at attempt 1 without delay,
\* whatever the calls before it went through, and an ended invocation raises
\* nothing more.
C18_CallEnds ==
    /\ [][\A i \in Proc :
              /\ Answered(i) =>
                     LET a == received'[i][1]
                     IN  IF Unparseable(a.res)
                         THEN /\ pc'[i] = "done"
                              /\ result'[i].err = "UpstreamMalformedResponse"
                         ELSE IF a.res.status \in 200..299 THEN ReturnedBody(i, a)
                         ELSE IF (a.res.status = 429 \/ a.res.status \in 500..599)
                                     /\ a.attempt < 4
                         THEN pc'[i] = "sleep" /\ result'[i] = result[i]
                         ELSE RaisedLast(i, a)
              /\ \A r \in requests' \ requests :
                     (r.by = i /\ r.attempt = 1)
                         => /\ http'[i].attempt = 1
                            /\ http'[i].delay = 0
                            /\ http'[i].lastStatus = 0
              /\ pc[i] = "done" => (pc'[i] = "done" /\ result'[i] = result[i])
        ]_vars
    /\ (\E i \in Proc, path \in Paths : InCall(i, path))
           ~> (\A i \in Proc, path \in Paths : ~InCall(i, path))

\* C18 happens: after a store-locator call that succeeded on its fourth
\* attempt, the validate-order call has succeeded on its fourth attempt too
\* and its caller has gone on to price-order.
C18_Witness ==
    \E i \in Proc :
        /\ \E r \in requests : r.by = i /\ r.path = "/power/store-locator" /\ r.attempt = 4
        /\ received[i] # <<>>
        /\ received[i][1].path = "/power/validate-order"
        /\ received[i][1].attempt = 4
        /\ received[i][1].res.status = 200
        /\ InCall(i, "/power/price-order")
        /\ http[i].attempt = 1

\* C19: of the placements for one token that do not overlap, at most one
\* returns ok = true, and after one has, every later one fails without having
\* sent a place-order request.
C19_OnePlacementPerToken ==
    \A i, j \in Proc :
        (/\ i < j
         /\ ConfirmedPlacer(i) /\ ConfirmedPlacer(j)
         /\ TokenOf(i) = TokenOf(j))
            => /\ ~(result[i].ok /\ result[j].ok)
               /\ result[i].ok
                      => /\ Sent(j, "/power/place-order") = {}
                         /\ pc[j] = "done" => result[j].out = "threw"

\* C19 happens: a placement has succeeded, and a later one for the same
\* token has failed on its read without sending anything.
C19_Witness ==
    \E i, j \in Proc :
        /\ i < j
        /\ ConfirmedPlacer(i) /\ ConfirmedPlacer(j)
        /\ TokenOf(i) = TokenOf(j)
        /\ result[i].ok
        /\ pc[j] = "done"
        /\ result[j].err = "UnknownOrExpiredToken"
        /\ ops[j].get = 1
        /\ Sent(j, "/power/place-order") = {}

\* C20: however quotes and placements interleave, a placement for a token
\* reads and deletes the record of that token only, and a quote only writes
\* the record of the token it has just generated and deletes nothing: a
\* record in storage is never changed, it goes only by the delete of a
\* placement for its token, and it comes only by the set of the quote that
\* generated its token.
C20_OnlyOwnKey ==
    [][/\ \A key \in DOMAIN storage \cap DOMAIN storage' : storage'[key] = storage[key]
       /\ \A key \in DOMAIN storage \ DOMAIN storage' :
              \E i \in Proc :
                  /\ IsPlacer(i) /\ Deletes(i) /\ KeyOf(i) = key
                  /\ DOMAIN storage' = DOMAIN storage \ {key}
                  /\ \A j \in Proc \ {i} : ops'[j] = ops[j]
       /\ \A key \in DOMAIN storage' \ DOMAIN storage :
              \E i \in Proc :
                  /\ IsQuoter(i)
                  /\ ops'[i].set = ops[i].set + 1
                  /\ key = QuoteKey(locals[i].orderToken)
                  /\ \A j \in Proc \ {i} : locals[j].orderToken # locals[i].orderToken
                  /\ DOMAIN storage' = DOMAIN storage \cup {key}
       /\ \A i \in Proc :
              /\ IsQuoter(i) => ops'[i].get = 0 /\ ops'[i].delete = 0
              /\ IsPlacer(i) => ops'[i].set = 0
              /\ (ConfirmedPlacer(i) /\ Reads(i) /\ pc'[i] # "done")
                     => locals'[i].saved = <<storage[KeyOf(i)]>>
      ]_vars

\* C20 happens: a placement has deleted the record of its token while the
\* record of another token stays in storage.
C20_Witness ==
    \E i \in Proc :
        /\ ConfirmedPlacer(i)
        /\ result[i].ok
        /\ ops[i].delete = 1
        /\ KeyOf(i) \notin DOMAIN storage
        /\ DOMAIN storage # {}

=============================================================================
